---- MODULE Spec2Model ----
(***************************************************************************)
(* Cache-aside catalog layer of the e-commerce API                         *)
(* (DevOps_Learning_Hub/07_Ecommerce_App_Polish/src/backend/app.py).       *)
(*                                                                         *)
(* Request threads run the Flask handlers get_products, get_product and    *)
(* create_product against the module-level list PRODUCTS and the Redis     *)
(* client redis_client.  A handler is split into steps at the points where *)
(* another thread can run in between: every Redis command, every read of   *)
(* PRODUCTS and the append.  Time is counted in seconds and advances in    *)
(* steps of TickStep; a Redis entry written by SETEX disappears when its   *)
(* remaining time to live reaches 0.                                       *)
(*                                                                         *)
(* Spec is the catalog with its cache; MetricsSpec adds the request        *)
(* instrumentation (before_request, after_request) and the Prometheus      *)
(* registry it writes to, for a bounded number of requests; ShopSpec is    *)
(* the shop application of backend/app (signup, login, logout and the      *)
(* pages behind the login) with its table of users and client sessions.    *)
(***************************************************************************)
EXTENDS Integers, Sequences, FiniteSets, TLC

(***************************************************************************)
(* Bounds of the model.                                                    *)
(***************************************************************************)
NumThreads == 2      \* request threads of the server
MaxProducts == 6     \* create_product is not started once PRODUCTS is this long
TicksPerTTL == 2     \* clock steps in one time to live
MaxRequests == 2     \* requests that MetricsSpec lets arrive
MaxClock == 1        \* largest reading of time.time()
MaxUsers == 3        \* no signup is started once the table has this many rows
MaxFlashes == 2      \* no view flashes once the session queues this many messages

(***************************************************************************)
(* Program constants.                                                      *)
(***************************************************************************)
DefaultExpires == 3600   \* set_cached_data(key, data, expires=3600)

Threads == 1..NumThreads
TickStep == DefaultExpires \div TicksPerTTL

None == "None"

\* what a thread holds of a request while it is idle
NoRequest == [method |-> None]
NoLocal == [none |-> TRUE]
NoResponse == [status |-> 0]
NoHist == [none |-> TRUE]

\* PRODUCTS as the module defines it; a JSON number is kept as its text, so
\* that it compares with None.
InitialProducts ==
    << [id |-> 1, name |-> "Smartphone", price |-> "699.99",  category |-> "Electronics"],
       [id |-> 2, name |-> "Laptop",     price |-> "1299.99", category |-> "Electronics"],
       [id |-> 3, name |-> "Headphones", price |-> "199.99",  category |-> "Electronics"],
       [id |-> 4, name |-> "T-shirt",    price |-> "24.99",   category |-> "Clothing"],
       [id |-> 5, name |-> "Jeans",      price |-> "49.99",   category |-> "Clothing"] >>

(***************************************************************************)
(* Inputs.  A JSON body is a function from the keys it holds to their      *)
(* values; the empty object is the function with the empty domain.         *)
(***************************************************************************)
EmptyBody == [k \in {} |-> None]
FullBody ==
    [k \in {"name", "price", "category"} |->
        CASE k = "name" -> "Mouse" [] k = "price" -> "25.00" [] OTHER -> "Electronics"]
PartialBody == [k \in {"name"} |-> "Mouse"]
Bodies == {EmptyBody, FullBody, PartialBody}
RequiredFields == {"name", "price", "category"}

\* product ids that GET /api/products/<id> is called with: 6 is unknown until
\* the first create_product appends it, and known from then on
ReadIds == {6}

\* dict.get(key): the value, or None when the key is absent
DictGet(d, k) == IF k \in DOMAIN d THEN d[k] ELSE None

\* Python truth value of a parsed JSON body: an empty dict is falsy
Truthy(d) == DOMAIN d # {}

(***************************************************************************)
(* json.dumps / json.loads.  A serialised product is the sequence of its   *)
(* key/value pairs in insertion order, a serialised list the sequence of   *)
(* its serialised members.                                                 *)
(***************************************************************************)
DumpsProduct(p) ==
    << <<"id", p.id>>, <<"name", p.name>>, <<"price", p.price>>,
       <<"category", p.category>> >>

LoadsProduct(s) ==
    LET val(k) == (CHOOSE i \in 1..Len(s) : s[i][1] = k)
    IN  [id |-> s[val("id")][2], name |-> s[val("name")][2],
         price |-> s[val("price")][2], category |-> s[val("category")][2]]

\* a serialiser that writes the members of a list last to first
DumpsList_Reversed(ps) == [i \in 1..Len(ps) |-> DumpsProduct(ps[Len(ps) + 1 - i])]

DumpsList(ps) == [i \in 1..Len(ps) |-> DumpsProduct(ps[i])]
LoadsList(s) == [i \in 1..Len(s) |-> LoadsProduct(s[i])]

\* str(product_id) for the ids of the model
Str(n) ==
    CASE n = 1 -> "1" [] n = 2 -> "2" [] n = 3 -> "3" [] n = 4 -> "4"
      [] n = 5 -> "5" [] n = 6 -> "6" [] n = 7 -> "7" [] n = 8 -> "8"
      [] OTHER -> "9"

AllKey == "all_products"
ProductKey(product_id) == "product_" \o Str(product_id)

(***************************************************************************)
(* The Redis server: a function from the keys it holds to entries          *)
(* [val, ttl], ttl being the seconds the entry has left.                   *)
(***************************************************************************)
RedisGet(store, key) ==
    IF key \in DOMAIN store THEN [hit |-> TRUE, val |-> store[key].val]
                            ELSE [hit |-> FALSE]

RedisSetex(store, key, expires, val) ==
    [k \in DOMAIN store \cup {key} |->
        IF k = key THEN [val |-> val, ttl |-> expires] ELSE store[k]]

RedisDelete(store, key) == [k \in DOMAIN store \ {key} |-> store[k]]

\* the store after `step` seconds: entries age, expired entries are gone
RedisElapse(store, step) ==
    LET live == {k \in DOMAIN store : store[k].ttl > step}
    IN  [k \in live |-> [val |-> store[k].val, ttl |-> store[k].ttl - step]]

\* a search that returns the last record with the id
FindProduct_Last(products, product_id) ==
    IF \E i \in 1..Len(products) : products[i].id = product_id
    THEN LET i == CHOOSE j \in 1..Len(products) :
                    /\ products[j].id = product_id
                    /\ \A l \in (j + 1)..Len(products) : products[l].id # product_id
         IN  [found |-> TRUE, product |-> products[i]]
    ELSE [found |-> FALSE]

\* next((p for p in PRODUCTS if p["id"] == product_id), None)
FindProduct(products, product_id) ==
    IF \E i \in 1..Len(products) : products[i].id = product_id
    THEN LET i == CHOOSE j \in 1..Len(products) :
                    /\ products[j].id = product_id
                    /\ \A l \in 1..(j - 1) : products[l].id # product_id
         IN  [found |-> TRUE, product |-> products[i]]
    ELSE [found |-> FALSE]

\* the dict create_product builds from the body and the id it computed
NewProduct(id, body) ==
    [id |-> id, name |-> DictGet(body, "name"), price |-> DictGet(body, "price"),
     category |-> DictGet(body, "category")]

(***************************************************************************)
(* State.                                                                  *)
(***************************************************************************)
VARIABLES
    redis_client,   \* "client", or None when the ping at startup failed
    PRODUCTS,       \* the module-level list of product dicts
    store,          \* the keys held by the Redis server
    pc,             \* where each request thread stands in its handler
    request,        \* the request each thread is serving
    local,          \* the handler's local variables
    response,       \* the response the handler returned
    writes,         \* history: what became of each appended product
    hist,           \* history: what each request saw when it started
    start_time,     \* request.start_time of the request each thread is serving
    clock,          \* what time.time() returns
    REQUEST_COUNT,  \* the samples of the Counter app_request_count, by labels
    REQUEST_LATENCY,\* the samples of the Histogram app_request_latency_seconds
    served,         \* history: responses sent, by method and path
    users,          \* the rows of the table of User
    email_unique,   \* whether the table refuses a second row with an email
    session,        \* the Flask session of each client
    logged_in       \* history: the row each client last logged in with

\* the metrics registry of the catalog application
registry == <<REQUEST_COUNT, REQUEST_LATENCY, served>>
\* the state of the shop application (backend/app)
shop == <<users, email_unique, session, logged_in>>

vars == <<redis_client, PRODUCTS, store, pc, request, local, response, writes, hist,
          start_time, clock, REQUEST_COUNT, REQUEST_LATENCY, served,
          users, email_unique, session, logged_in>>

GetProductsRequest == [method |-> "GET", path |-> "/api/products"]
GetProductRequest(product_id) ==
    [method |-> "GET", path |-> "/api/products/" \o Str(product_id),
     product_id |-> product_id]
CreateProductRequest(body) ==
    [method |-> "POST", path |-> "/api/products", json |-> body]

\* jsonify(x), status: the response a view returns
Jsonify(body, status) == [status |-> status, body |-> body]

\* the response Flask makes of an exception a view did not catch
InternalServerError == [status |-> 500, body |-> [error |-> "Internal Server Error"]]

Min(a, b) == IF a < b THEN a ELSE b

\* indices of PRODUCTS whose create_product returned 201
Acked == {i \in DOMAIN writes : writes[i].status = "acked"}
\* indices whose create_product ended at least one time to live ago
Aged == {i \in DOMAIN writes :
            writes[i].status # "pending" /\ writes[i].age >= DefaultExpires}

(***************************************************************************)
(* Startup: the module body pings Redis and keeps the client, or None.     *)
(***************************************************************************)
Init ==
    /\ redis_client \in {"client", None}
    /\ PRODUCTS = InitialProducts
    /\ store = [k \in {} |-> None]
    /\ pc = [t \in Threads |-> "idle"]
    /\ request = [t \in Threads |-> NoRequest]
    /\ local = [t \in Threads |-> NoLocal]
    /\ response = [t \in Threads |-> NoResponse]
    /\ writes = [i \in {} |-> None]
    /\ hist = [t \in Threads |-> NoHist]
    /\ start_time = [t \in Threads |-> 0]
    /\ clock = 0
    /\ REQUEST_COUNT = [l \in {} |-> 0]
    /\ REQUEST_LATENCY = [l \in {} |-> 0]
    /\ served = [e \in {} |-> 0]
    /\ users = << >>
    /\ email_unique = TRUE
    /\ session = [c \in {} |-> None]
    /\ logged_in = [c \in {} |-> None]

(***************************************************************************)
(* Cache implementation (get_cached_data, set_cached_data).  A Redis       *)
(* command either reaches the server or raises (timeout, connection        *)
(* refused); neither function catches the exception.                       *)
(***************************************************************************)
\* get_cached_data that never finds the key
GetCachedData_AlwaysMiss(client, st, key) ==
    IF client = None
    THEN {[raised |-> FALSE, hit |-> FALSE]}
    ELSE {[raised |-> TRUE], [raised |-> FALSE, hit |-> FALSE]}

\* the outcomes of get_cached_data(key): an exception, or the cached bytes
\* (json.loads is applied by the caller below), or None
GetCachedData(client, st, key) ==
    IF client = None
    THEN {[raised |-> FALSE, hit |-> FALSE]}
    ELSE {[raised |-> TRUE],
          [raised |-> FALSE] @@ RedisGet(st, key)}

\* set_cached_data that passes twice the time to live
SetCachedData_DoubleExpires(st, key, data) ==
    RedisSetex(st, key, 2 * DefaultExpires, data)

\* the store after set_cached_data(key, data) reached the server
SetCachedData(st, key, data) == RedisSetex(st, key, DefaultExpires, data)

\* create_product that leaves the aggregate key in place
InvalidateCache_KeepsKey(st) == st

\* create_product that flushes the cache
InvalidateCache_FlushAll(st) == [k \in {} |-> None]

\* the store after redis_client.delete("all_products") reached the server
InvalidateCache(st) == RedisDelete(st, AllKey)

\* a request arrives at an idle thread (before_request runs)
Accept(t, r) ==
    /\ pc[t] = "idle"
    /\ request' = [request EXCEPT ![t] = r]
    /\ start_time' = [start_time EXCEPT ![t] = clock]

\* what the history keeps of a request that starts now
NewHist(fault, keyHeld) ==
    [startLen |-> Len(PRODUCTS), acked |-> Acked, aged |-> Aged,
     fault |-> fault, keyHeld |-> keyHeld, searched |-> FALSE, index |-> 0]

\* the view returns r (or raises, r being the 500 Flask makes of it)
Return(t, r) ==
    /\ response' = [response EXCEPT ![t] = r]
    /\ pc' = [pc EXCEPT ![t] = "done"]
    /\ local' = [local EXCEPT ![t] = NoLocal]

\* the view goes on to `label` with the local variables l
Goto(t, label, l) ==
    /\ pc' = [pc EXCEPT ![t] = label]
    /\ local' = [local EXCEPT ![t] = l]
    /\ UNCHANGED response

(***************************************************************************)
(* GET /api/products                                                       *)
(***************************************************************************)
\* cached_products = get_cached_data("all_products"); return it on a hit
GetProducts_get(t) ==
    /\ Accept(t, GetProductsRequest)
    /\ \E out \in GetCachedData(redis_client, store, AllKey) :
          /\ hist' = [hist EXCEPT ![t] =
                NewHist(IF out.raised THEN "get" ELSE None, AllKey \in DOMAIN store)]
          /\ IF out.raised
             THEN Return(t, InternalServerError)
             ELSE IF out.hit /\ Len(LoadsList(out.val)) > 0
                  THEN Return(t, Jsonify(LoadsList(out.val), 200))
                  ELSE Goto(t, IF redis_client = None THEN "jsonify" ELSE "dumps",
                            NoLocal)
    /\ UNCHANGED <<redis_client, PRODUCTS, store, writes>>
    /\ UNCHANGED <<clock, registry, shop>>

\* set_cached_data: json.dumps(PRODUCTS) is evaluated before SETEX is sent
GetProducts_dumps(t) ==
    /\ pc[t] = "dumps"
    /\ Goto(t, "setex", [data |-> DumpsList(PRODUCTS)])
    /\ UNCHANGED <<redis_client, PRODUCTS, store, request, writes, hist>>
    /\ UNCHANGED <<start_time, clock, registry, shop>>

\* set_cached_data: redis_client.setex(key, expires, data)
GetProducts_setex(t) ==
    /\ pc[t] = "setex"
    /\ \/ /\ Return(t, InternalServerError)
          /\ hist' = [hist EXCEPT ![t].fault = "set"]
          /\ UNCHANGED store
       \/ /\ store' = SetCachedData(store, AllKey, local[t].data)
          /\ Goto(t, "jsonify", NoLocal)
          /\ UNCHANGED hist
    /\ UNCHANGED <<redis_client, PRODUCTS, request, writes>>
    /\ UNCHANGED <<start_time, clock, registry, shop>>

\* return jsonify(PRODUCTS)
GetProducts_jsonify(t) ==
    /\ pc[t] = "jsonify"
    /\ Return(t, Jsonify(PRODUCTS, 200))
    /\ UNCHANGED <<redis_client, PRODUCTS, store, request, writes, hist>>
    /\ UNCHANGED <<start_time, clock, registry, shop>>

(***************************************************************************)
(* GET /api/products/<int:product_id>                                      *)
(***************************************************************************)
\* cached_product = get_cached_data(f"product_{product_id}")
GetProduct_get(t, product_id) ==
    /\ Accept(t, GetProductRequest(product_id))
    /\ LET key == ProductKey(product_id) IN
       \E out \in GetCachedData(redis_client, store, key) :
          /\ hist' = [hist EXCEPT ![t] =
                [NewHist(IF out.raised THEN "get" ELSE None, key \in DOMAIN store)
                    EXCEPT !.acked = {}, !.aged = {}]]
          /\ IF out.raised
             THEN Return(t, InternalServerError)
             ELSE IF out.hit
                  THEN Return(t, Jsonify(LoadsProduct(out.val), 200))
                  ELSE Goto(t, "search", NoLocal)
    /\ UNCHANGED <<redis_client, PRODUCTS, store, writes>>
    /\ UNCHANGED <<clock, registry, shop>>

\* product = next(...); 404 when there is none
GetProduct_search(t) ==
    /\ pc[t] = "search"
    /\ LET res == FindProduct(PRODUCTS, request[t].product_id) IN
          /\ hist' = [hist EXCEPT ![t].searched = TRUE]
          /\ IF ~res.found
             THEN Return(t, Jsonify([error |-> "Product not found"], 404))
             ELSE IF redis_client = None
                  THEN Return(t, Jsonify(res.product, 200))
                  ELSE Goto(t, "setex_product", [product |-> res.product])
    /\ UNCHANGED <<redis_client, PRODUCTS, store, request, writes>>
    /\ UNCHANGED <<start_time, clock, registry, shop>>

\* set_cached_data(cache_key, product); return jsonify(product)
GetProduct_setex(t) ==
    /\ pc[t] = "setex_product"
    /\ \/ /\ Return(t, InternalServerError)
          /\ hist' = [hist EXCEPT ![t].fault = "set"]
          /\ UNCHANGED store
       \/ /\ store' = SetCachedData(store, ProductKey(request[t].product_id),
                                    DumpsProduct(local[t].product))
          /\ Return(t, Jsonify(local[t].product, 200))
          /\ UNCHANGED hist
    /\ UNCHANGED <<redis_client, PRODUCTS, request, writes>>
    /\ UNCHANGED <<start_time, clock, registry, shop>>

(***************************************************************************)
(* POST /api/products                                                      *)
(***************************************************************************)
\* create_product that invalidates the cache before it looks at the body
CreateProduct_validate_InvalidatesFirst(t, body) ==
    /\ Accept(t, CreateProductRequest(body))
    /\ Len(PRODUCTS) < MaxProducts
    /\ hist' = [hist EXCEPT ![t] = [NewHist(None, FALSE) EXCEPT !.acked = {}, !.aged = {}]]
    /\ store' = InvalidateCache(store)
    /\ IF ~Truthy(body)
       THEN Return(t, Jsonify([error |-> "Invalid request"], 400))
       ELSE Goto(t, "append", [new_product |-> NewProduct(Len(PRODUCTS) + 1, body)])
    /\ UNCHANGED <<redis_client, PRODUCTS, writes>>
    /\ UNCHANGED <<clock, registry, shop>>

\* if not request.json: 400; else build new_product with id len(PRODUCTS) + 1
CreateProduct_validate(t, body) ==
    /\ Accept(t, CreateProductRequest(body))
    /\ Len(PRODUCTS) < MaxProducts
    /\ hist' = [hist EXCEPT ![t] = [NewHist(None, FALSE) EXCEPT !.acked = {}, !.aged = {}]]
    /\ IF ~Truthy(body)
       THEN Return(t, Jsonify([error |-> "Invalid request"], 400))
       ELSE Goto(t, "append", [new_product |-> NewProduct(Len(PRODUCTS) + 1, body)])
    /\ UNCHANGED <<redis_client, PRODUCTS, store, writes>>
    /\ UNCHANGED <<clock, registry, shop>>

\* create_product that puts the new product first
CreateProduct_append_Prepends(t) ==
    /\ pc[t] = "append"
    /\ PRODUCTS' = <<local[t].new_product>> \o PRODUCTS
    /\ LET index == Len(PRODUCTS) + 1 IN
          /\ hist' = [hist EXCEPT ![t].index = index]
          /\ IF redis_client = None
             THEN /\ Return(t, Jsonify(local[t].new_product, 201))
                  /\ writes' = (index :> [status |-> "acked", raced |-> FALSE, age |-> 0])
                                    @@ writes
             ELSE /\ Goto(t, "delete", local[t])
                  /\ writes' = (index :> [status |-> "pending", raced |-> FALSE, age |-> 0])
                                    @@ writes
    /\ UNCHANGED <<redis_client, store, request>>
    /\ UNCHANGED <<start_time, clock, registry, shop>>

\* PRODUCTS.append(new_product); without a client the handler returns 201 here
CreateProduct_append(t) ==
    /\ pc[t] = "append"
    /\ PRODUCTS' = Append(PRODUCTS, local[t].new_product)
    /\ LET index == Len(PRODUCTS) + 1 IN
          /\ hist' = [hist EXCEPT ![t].index = index]
          /\ IF redis_client = None
             THEN /\ Return(t, Jsonify(local[t].new_product, 201))
                  /\ writes' = (index :> [status |-> "acked", raced |-> FALSE, age |-> 0])
                                    @@ writes
             ELSE /\ Goto(t, "delete", local[t])
                  /\ writes' = (index :> [status |-> "pending", raced |-> FALSE, age |-> 0])
                                    @@ writes
    /\ UNCHANGED <<redis_client, store, request>>
    /\ UNCHANGED <<start_time, clock, registry, shop>>

\* some GET /api/products holds a serialised list without product `index`
\* that it has still to send to Redis
StaleSetPending(index) ==
    \E u \in Threads : pc[u] = "setex" /\ Len(local[u].data) < index

\* redis_client.delete("all_products"); return jsonify(new_product), 201
CreateProduct_delete(t) ==
    /\ pc[t] = "delete"
    /\ LET index == hist[t].index IN
       \/ /\ Return(t, InternalServerError)
          /\ hist' = [hist EXCEPT ![t].fault = "delete"]
          /\ writes' = [writes EXCEPT ![index] =
                [status |-> "lost", raced |-> StaleSetPending(index), age |-> 0]]
          /\ UNCHANGED store
       \/ /\ store' = InvalidateCache(store)
          /\ Return(t, Jsonify(local[t].new_product, 201))
          /\ writes' = [writes EXCEPT ![index] =
                [status |-> "acked", raced |-> StaleSetPending(index), age |-> 0]]
          /\ UNCHANGED hist
    /\ UNCHANGED <<redis_client, PRODUCTS, request>>
    /\ UNCHANGED <<start_time, clock, registry, shop>>

(***************************************************************************)
(* GET /health                                                             *)
(***************************************************************************)
HealthRequest == [method |-> "GET", path |-> "/health"]

\* a health check that reports the cache as connected whatever the client
HealthRedis_AlwaysConnected(client) == "connected"

\* "connected" if redis_client else "disconnected"
HealthRedis(client) == IF client # None THEN "connected" ELSE "disconnected"

\* return jsonify(health)
HealthCheck(t) ==
    /\ Accept(t, HealthRequest)
    /\ hist' = [hist EXCEPT ![t] = [NewHist(None, FALSE) EXCEPT !.acked = {}, !.aged = {}]]
    /\ Return(t, Jsonify([status |-> "up", timestamp |-> clock,
                          redis |-> HealthRedis(redis_client)], 200))
    /\ UNCHANGED <<redis_client, PRODUCTS, store, writes>>
    /\ UNCHANGED <<clock, registry, shop>>

\* the response has been sent; the thread is free for the next request (Spec
\* leaves out the metrics that after_request records on the way: no view
\* reads them)
Finish(t) ==
    /\ pc[t] = "done"
    /\ pc' = [pc EXCEPT ![t] = "idle"]
    /\ request' = [request EXCEPT ![t] = NoRequest]
    /\ response' = [response EXCEPT ![t] = NoResponse]
    /\ hist' = [hist EXCEPT ![t] = NoHist]
    /\ UNCHANGED <<redis_client, PRODUCTS, store, local, writes>>
    /\ start_time' = [start_time EXCEPT ![t] = 0]
    /\ UNCHANGED <<clock, registry, shop>>

\* TickStep seconds pass on the Redis server: it ages its entries and drops
\* the expired ones
Tick ==
    /\ store' = RedisElapse(store, TickStep)
    /\ writes' = [i \in DOMAIN writes |->
                    IF writes[i].status = "pending" THEN writes[i]
                    ELSE [writes[i] EXCEPT !.age = Min(@ + TickStep, DefaultExpires)]]
    /\ UNCHANGED <<redis_client, PRODUCTS, pc, request, local, response, hist>>
    /\ UNCHANGED <<start_time, clock, registry, shop>>

Step(t) ==
    \/ GetProducts_get(t)
    \/ GetProducts_dumps(t)
    \/ GetProducts_setex(t)
    \/ GetProducts_jsonify(t)
    \/ \E product_id \in ReadIds : GetProduct_get(t, product_id)
    \/ GetProduct_search(t)
    \/ GetProduct_setex(t)
    \/ \E body \in Bodies : CreateProduct_validate(t, body)
    \/ CreateProduct_append(t)
    \/ CreateProduct_delete(t)
    \/ HealthCheck(t)
    \/ Finish(t)

Next ==
    \/ \E t \in Threads : Step(t)
    \/ Tick

Spec == Init /\ [][Next]_vars

\* GET /api/products and POST /api/products alone: the requests that read and
\* write the aggregate key.  A thread that runs a handler is scheduled
\* again, and the clock goes on.
ListStep(t) ==
    \/ GetProducts_get(t)
    \/ \E body \in Bodies : CreateProduct_validate(t, body)

ListContinue(t) ==
    \/ GetProducts_dumps(t)
    \/ GetProducts_setex(t)
    \/ GetProducts_jsonify(t)
    \/ CreateProduct_append(t)
    \/ CreateProduct_delete(t)
    \/ Finish(t)

ListNext ==
    \/ \E t \in Threads : ListStep(t)
    \/ \E t \in Threads : ListContinue(t)
    \/ Tick

FairSpec ==
    /\ Init /\ [][ListNext]_vars
    /\ WF_vars(Tick)
    /\ \A t \in Threads : WF_vars(ListContinue(t))

(***************************************************************************)
(* Request instrumentation and the Prometheus registry.  REQUEST_COUNT     *)
(* maps the label values (app_name, method, endpoint, http_status) that    *)
(* have a sample to its count, REQUEST_LATENCY the label values            *)
(* (app_name, method, endpoint) to the count and the sum of the            *)
(* observations.  A sample is created by the first labels() call with its  *)
(* label values; inc() and observe() update it under the metric's lock.    *)
(***************************************************************************)
AppName == "ecommerce-api"

\* the rules of the @app.route decorators, and their methods
DeclaredRoutes ==
    {"/metrics", "/health", "/api/products", "/api/products/<int:product_id>"}
DeclaredMethods == {"GET", "POST"}

\* labels that name the status 200 whatever the response
CountLabels_AlwaysOK(r, resp) == <<AppName, r.method, r.path, 200>>

\* REQUEST_COUNT.labels('ecommerce-api', request.method, request.path,
\*                      response.status_code)
CountLabels(r, resp) == <<AppName, r.method, r.path, resp.status>>

\* REQUEST_LATENCY.labels('ecommerce-api', request.method, request.path)
LatencyLabels(r) == <<AppName, r.method, r.path>>

\* inc() that starts every sample over
Inc_Overwrite(counter, labels) ==
    [l \in DOMAIN counter \cup {labels} |-> IF l = labels THEN 1 ELSE counter[l]]

\* Counter.labels(...).inc()
Inc(counter, labels) ==
    [l \in DOMAIN counter \cup {labels} |->
        IF l = labels THEN (IF l \in DOMAIN counter THEN counter[l] ELSE 0) + 1
                      ELSE counter[l]]

\* observe() that adds to the sum and leaves the count
Observe_SumOnly(histogram, labels, amount) ==
    LET old == IF labels \in DOMAIN histogram THEN histogram[labels]
               ELSE [count |-> 0, sum |-> 0]
    IN  [l \in DOMAIN histogram \cup {labels} |->
            IF l = labels THEN [count |-> old.count, sum |-> old.sum + amount]
                          ELSE histogram[l]]

\* Histogram.labels(...).observe(amount)
Observe(histogram, labels, amount) ==
    LET old == IF labels \in DOMAIN histogram THEN histogram[labels]
               ELSE [count |-> 0, sum |-> 0]
    IN  [l \in DOMAIN histogram \cup {labels} |->
            IF l = labels THEN [count |-> old.count + 1, sum |-> old.sum + amount]
                          ELSE histogram[l]]

\* prometheus_client.generate_latest(): the samples of the registry
GenerateLatest == [app_request_count |-> REQUEST_COUNT,
                   app_request_latency_seconds |-> REQUEST_LATENCY]

MetricsRequest == [method |-> "GET", path |-> "/metrics"]

\* GET /metrics
Metrics(t) ==
    /\ Accept(t, MetricsRequest)
    /\ hist' = [hist EXCEPT ![t] = [NewHist(None, FALSE) EXCEPT !.acked = {}, !.aged = {}]]
    /\ Return(t, [status |-> 200, body |-> GenerateLatest])
    /\ UNCHANGED <<redis_client, PRODUCTS, store, writes>>
    /\ UNCHANGED <<clock, registry, shop>>

\* paths that no route of the application matches
UnknownPaths == {"/wp-login.php"}

\* a request that matches no route: before_request runs, then Flask answers
\* 404 and after_request runs on that response
NoRoute(t, path) ==
    /\ Accept(t, [method |-> "GET", path |-> path])
    /\ hist' = [hist EXCEPT ![t] = [NewHist(None, FALSE) EXCEPT !.acked = {}, !.aged = {}]]
    /\ Return(t, [status |-> 404, body |-> [error |-> "Not Found"]])
    /\ UNCHANGED <<redis_client, PRODUCTS, store, writes>>
    /\ UNCHANGED <<clock, registry, shop>>

\* after_request: request_latency = time.time() - request.start_time;
\* REQUEST_LATENCY.labels(...).observe(request_latency)
AfterRequest_observe(t) ==
    /\ pc[t] = "done"
    /\ LET request_latency == clock - start_time[t] IN
          /\ REQUEST_LATENCY' = Observe(REQUEST_LATENCY, LatencyLabels(request[t]),
                                        request_latency)
          /\ pc' = [pc EXCEPT ![t] = "inc"]
          /\ local' = [local EXCEPT ![t] = [request_latency |-> request_latency]]
    /\ UNCHANGED <<redis_client, PRODUCTS, store, request, response, writes, hist>>
    /\ UNCHANGED <<start_time, clock, REQUEST_COUNT, served, shop>>

\* after_request: REQUEST_COUNT.labels(...).inc(); return response.  The
\* response is sent and the thread is free for the next request.
AfterRequest_inc(t) ==
    /\ pc[t] = "inc"
    /\ REQUEST_COUNT' = Inc(REQUEST_COUNT, CountLabels(request[t], response[t]))
    /\ LET e == <<request[t].method, request[t].path>> IN
          served' = [x \in DOMAIN served \cup {e} |->
                        IF x = e THEN (IF e \in DOMAIN served THEN served[e] ELSE 0) + 1
                                 ELSE served[x]]
    /\ pc' = [pc EXCEPT ![t] = "idle"]
    /\ request' = [request EXCEPT ![t] = NoRequest]
    /\ response' = [response EXCEPT ![t] = NoResponse]
    /\ local' = [local EXCEPT ![t] = NoLocal]
    /\ hist' = [hist EXCEPT ![t] = NoHist]
    /\ start_time' = [start_time EXCEPT ![t] = 0]
    /\ UNCHANGED <<redis_client, PRODUCTS, store, writes>>
    /\ UNCHANGED <<clock, REQUEST_LATENCY, shop>>

\* time passes on the application's host
ClockForward ==
    /\ clock < MaxClock
    /\ clock' = clock + 1
    /\ UNCHANGED <<redis_client, PRODUCTS, store, pc, request, local, response, writes, hist>>
    /\ UNCHANGED <<start_time, registry, shop>>

\* the host's clock is set back (time.time() is the wall clock)
ClockBack ==
    /\ clock > 0
    /\ clock' = clock - 1
    /\ UNCHANGED <<redis_client, PRODUCTS, store, pc, request, local, response, writes, hist>>
    /\ UNCHANGED <<start_time, registry, shop>>

RECURSIVE SumOver(_, _)
\* the sum of f over the set S
SumOver(f, S) ==
    IF S = {} THEN 0
    ELSE LET x == CHOOSE y \in S : TRUE IN f[x] + SumOver(f, S \ {x})

\* requests that have arrived: those answered and those being served
Arrived == SumOver(served, DOMAIN served) + Cardinality({t \in Threads : pc[t] # "idle"})

\* a request arrives
MetricsArrive(t) ==
    /\ Arrived < MaxRequests
    /\ \/ GetProducts_get(t)
       \/ \E product_id \in ReadIds : GetProduct_get(t, product_id)
       \/ \E body \in Bodies : CreateProduct_validate(t, body)
       \/ HealthCheck(t)
       \/ Metrics(t)
       \/ \E path \in UnknownPaths : NoRoute(t, path)

\* the request of thread t goes on
MetricsContinue(t) ==
    \/ GetProducts_dumps(t)
    \/ GetProducts_setex(t)
    \/ GetProducts_jsonify(t)
    \/ GetProduct_search(t)
    \/ GetProduct_setex(t)
    \/ CreateProduct_append(t)
    \/ CreateProduct_delete(t)
    \/ AfterRequest_observe(t)
    \/ AfterRequest_inc(t)

MetricsNext ==
    \/ \E t \in Threads : MetricsArrive(t)
    \/ \E t \in Threads : MetricsContinue(t)
    \/ ClockForward
    \/ ClockBack

MetricsSpec == Init /\ [][MetricsNext]_vars

(***************************************************************************)
(* The shop application (backend/app): views.py serves the pages and keeps *)
(* the login in the Flask session of the client, routes.py serves the JSON *)
(* API.  A view is one step, except signup: another request can commit     *)
(* between its query for the email and its own commit.  flash() queues its *)
(* message in the session under the key _flashes; the templates, which are *)
(* not among the sources, may show the queue and drop it.                  *)
(***************************************************************************)
Clients == {"browser"}

\* generate_password_hash / check_password_hash
GeneratePasswordHash(password) == "pbkdf2:sha256$" \o password
CheckPasswordHash(pwhash, password) == pwhash = GeneratePasswordHash(password)

\* the admin that add_sample_data.py stores
AdminUser ==
    [id |-> 1, username |-> "admin", email |-> "admin@example.com",
     password_hash |-> GeneratePasswordHash("admin123"), is_admin |-> TRUE]

\* what clients send to signup and to login
SignupForms ==
    {[username |-> "alice",  email |-> "alice@example.com", password |-> "alicepass"],
     [username |-> "alice2", email |-> "alice@example.com", password |-> "otherpass"]}
LoginForms ==
    {[email |-> "alice@example.com", password |-> "alicepass"],
     [email |-> "alice@example.com", password |-> "wrongpass"],
     [email |-> "admin@example.com", password |-> "admin123"]}
ProtectedPages == {"/cart", "/wishlist", "/checkout"}
\* what a page behind the login flashes to a client that is not logged in
LoginMessage(page) ==
    CASE page = "/cart" -> "Please login to view cart"
      [] page = "/wishlist" -> "Please login to view wishlist"
      [] OTHER -> "Please login to checkout"

\* a query that finds no row
FirstByEmail_NeverFound(rows, email) == [found |-> FALSE]

\* User.query.filter_by(email=email).first()
FirstByEmail(rows, email) ==
    IF \E i \in 1..Len(rows) : rows[i].email = email
    THEN LET i == CHOOSE j \in 1..Len(rows) :
                    /\ rows[j].email = email
                    /\ \A l \in 1..(j - 1) : rows[l].email # email
         IN  [found |-> TRUE, user |-> rows[i]]
    ELSE [found |-> FALSE]

\* User(username=..., email=..., password_hash=generate_password_hash(password))
NewUser(form) ==
    [username |-> form.username, email |-> form.email,
     password_hash |-> GeneratePasswordHash(form.password)]

\* the table with the row of `user` added: the row gets the next id, and
\* is_admin is false unless the constructor was given it
DbAdd(rows, user) == Append(rows, [id |-> Len(rows) + 1, is_admin |-> FALSE] @@ user)

EmptySession == [k \in {} |-> None]

\* session.get('_flashes', [])
Flashes(sess) == IF "_flashes" \in DOMAIN sess THEN sess["_flashes"] ELSE << >>

\* flash(message): the message joins the queue the session keeps
Flash(sess, message) ==
    [k \in DOMAIN sess \cup {"_flashes"} |->
        IF k = "_flashes" THEN Append(Flashes(sess), <<"message", message>>)
                          ELSE sess[k]]

\* the session after render_template: a template that calls
\* get_flashed_messages() pops the queue, another leaves it
Rendered(sess) == {sess, [k \in DOMAIN sess \ {"_flashes"} |-> sess[k]]}

\* views of client c that are about to flash after their commit
FlashPending(c) ==
    Cardinality({t \in Threads :
        pc[t] = "commit" /\ request[t].client = c /\ request[t].path = "/signup"})

\* the queue of client c has room for the message of one more view
FlashRoom(c) == Len(Flashes(session[c])) + FlashPending(c) < MaxFlashes
\* the history of a client that is not logged in
NoUser == [id |-> 0]
\* redirect(url_for(...)), render_template(...)
Redirect(location) == [status |-> 302, location |-> location]
RenderTemplate(name) == [status |-> 200, body |-> name]

ShopInit ==
    /\ redis_client = None
    /\ PRODUCTS = InitialProducts
    /\ store = [k \in {} |-> None]
    /\ pc = [t \in Threads |-> "idle"]
    /\ request = [t \in Threads |-> NoRequest]
    /\ local = [t \in Threads |-> NoLocal]
    /\ response = [t \in Threads |-> NoResponse]
    /\ writes = [i \in {} |-> None]
    /\ hist = [t \in Threads |-> NoHist]
    /\ start_time = [t \in Threads |-> 0]
    /\ clock = 0
    /\ REQUEST_COUNT = [l \in {} |-> 0]
    /\ REQUEST_LATENCY = [l \in {} |-> 0]
    /\ served = [e \in {} |-> 0]
    /\ users = <<AdminUser>>
    /\ email_unique \in BOOLEAN
    /\ session = [c \in Clients |-> EmptySession]
    /\ logged_in = [c \in Clients |-> NoUser]

\* a request of client c arrives at an idle thread
ShopAccept(t, c, r) ==
    /\ pc[t] = "idle"
    /\ request' = [request EXCEPT ![t] = [client |-> c] @@ r]
    /\ hist' = [hist EXCEPT ![t] = [login |-> logged_in[c], seen |-> Len(users)]]

\* rows stored and rows that a signup is about to commit
Signups == Len(users) + Cardinality({t \in Threads : pc[t] = "commit"})

\* signup: the query for the email, and the answer when it finds a row
SignupQuery(t, c, r, form, rejection, message) ==
    /\ ShopAccept(t, c, r @@ [form |-> form])
    /\ Signups < MaxUsers
    /\ message # None => FlashRoom(c)
    /\ IF FirstByEmail(users, form.email).found
       THEN /\ Return(t, rejection)
            /\ session' = [session EXCEPT ![c] =
                    IF message = None THEN @ ELSE Flash(@, message)]
       ELSE /\ Goto(t, "commit", [user |-> NewUser(form)])
            /\ UNCHANGED session
    /\ UNCHANGED <<redis_client, PRODUCTS, store, writes>>
    /\ UNCHANGED <<start_time, clock, registry, users, email_unique, logged_in>>

\* signup: db.session.add(user); db.session.commit(), and the answer
SignupCommit(t, path, success, message) ==
    /\ pc[t] = "commit"
    /\ request[t].path = path
    /\ IF email_unique /\ FirstByEmail(users, local[t].user.email).found
       THEN Return(t, InternalServerError) /\ UNCHANGED <<users, session>>
       ELSE /\ users' = DbAdd(users, local[t].user)
            /\ session' = [session EXCEPT ![request[t].client] =
                    IF message = None THEN @ ELSE Flash(@, message)]
            /\ Return(t, success)
    /\ UNCHANGED <<redis_client, PRODUCTS, store, request, writes, hist>>
    /\ UNCHANGED <<start_time, clock, registry, email_unique, logged_in>>

\* POST /signup
Signup_query(t, c, form) ==
    SignupQuery(t, c, [method |-> "POST", path |-> "/signup"], form, Redirect("/signup"),
                "Email already exists")
Signup_commit(t) ==
    SignupCommit(t, "/signup", Redirect("/login"), "Signup successful! Please login.")

\* POST /api/auth/signup
ApiSignup_query(t, c, data) ==
    SignupQuery(t, c, [method |-> "POST", path |-> "/api/auth/signup"], data,
                Jsonify([msg |-> "Email already exists"], 400), None)
ApiSignup_commit(t) ==
    SignupCommit(t, "/api/auth/signup", Jsonify([msg |-> "Signup successful"], 201), None)

(***************************************************************************)
(* Login, logout and the pages behind the login.                           *)
(***************************************************************************)
\* session['user_id'] = user.id; session['username'] = user.username;
\* session['is_admin'] = user.is_admin
SetLogin(sess, user) ==
    [k \in DOMAIN sess \cup {"user_id", "username", "is_admin"} |->
        CASE k = "user_id" -> user.id
          [] k = "username" -> user.username
          [] k = "is_admin" -> user.is_admin
          [] OTHER -> sess[k]]

\* a check that accepts any password for an email that is stored
InvalidCredentials_UnknownOnly(rows, form) == ~FirstByEmail(rows, form.email).found

\* not user or not check_password_hash(user.password_hash, password)
InvalidCredentials(rows, form) ==
    LET res == FirstByEmail(rows, form.email)
    IN  ~res.found \/ ~CheckPasswordHash(res.user.password_hash, form.password)

\* POST /login
Login(t, c, form) ==
    /\ ShopAccept(t, c, [method |-> "POST", path |-> "/login", form |-> form])
    /\ FlashRoom(c)
    /\ IF InvalidCredentials(users, form)
       THEN /\ session' = [session EXCEPT ![c] = Flash(@, "Invalid credentials")]
            /\ Return(t, Redirect("/login"))
            /\ UNCHANGED logged_in
       ELSE LET user == FirstByEmail(users, form.email).user IN
            /\ session' = [session EXCEPT ![c] =
                    Flash(SetLogin(@, user), "Login successful!")]
            /\ logged_in' = [logged_in EXCEPT ![c] = user]
            /\ Return(t, Redirect("/"))
    /\ UNCHANGED <<redis_client, PRODUCTS, store, writes>>
    /\ UNCHANGED <<start_time, clock, registry, users, email_unique>>

\* create_access_token(identity=user.id)
CreateAccessToken(identity) == <<"jwt", identity>>

\* POST /api/auth/login
ApiLogin(t, c, data) ==
    /\ ShopAccept(t, c, [method |-> "POST", path |-> "/api/auth/login", form |-> data])
    /\ IF InvalidCredentials(users, data)
       THEN Return(t, Jsonify([msg |-> "Invalid credentials"], 401))
       ELSE LET user == FirstByEmail(users, data.email).user IN
            Return(t, Jsonify([access_token |-> CreateAccessToken(user.id),
                               user |-> [id |-> user.id, username |-> user.username,
                                         is_admin |-> user.is_admin]], 200))
    /\ UNCHANGED <<redis_client, PRODUCTS, store, writes>>
    /\ UNCHANGED <<start_time, clock, registry, shop>>

\* logout that leaves the session as it is
SessionClear_Keeps(sess) == sess

\* session.clear()
SessionClear(sess) == EmptySession

\* GET /logout
Logout(t, c) ==
    /\ ShopAccept(t, c, [method |-> "GET", path |-> "/logout"])
    /\ session' = [session EXCEPT ![c] =
            Flash(SessionClear(@), "Logged out successfully!")]
    /\ logged_in' = [logged_in EXCEPT ![c] = NoUser]
    /\ Return(t, Redirect("/"))
    /\ UNCHANGED <<redis_client, PRODUCTS, store, writes>>
    /\ UNCHANGED <<start_time, clock, registry, users, email_unique>>

\* GET /cart, /wishlist, /checkout
ProtectedPage(t, c, page) ==
    /\ ShopAccept(t, c, [method |-> "GET", path |-> page])
    /\ IF "user_id" \notin DOMAIN session[c]
       THEN /\ FlashRoom(c)
            /\ session' = [session EXCEPT ![c] = Flash(@, LoginMessage(page))]
            /\ Return(t, Redirect("/login"))
       ELSE /\ \E sess \in Rendered(session[c]) : session' = [session EXCEPT ![c] = sess]
            /\ Return(t, RenderTemplate(page))
    /\ UNCHANGED <<redis_client, PRODUCTS, store, writes>>
    /\ UNCHANGED <<start_time, clock, registry, users, email_unique, logged_in>>

\* admin page that asks for a login only
AdminAllowed_AnyUser(sess) == "user_id" \in DOMAIN sess

\* not ('user_id' not in session or not session.get('is_admin'))
AdminAllowed(sess) ==
    "user_id" \in DOMAIN sess /\ "is_admin" \in DOMAIN sess /\ sess["is_admin"]

\* GET /admin
Admin(t, c) ==
    /\ ShopAccept(t, c, [method |-> "GET", path |-> "/admin"])
    /\ IF ~AdminAllowed(session[c])
       THEN /\ FlashRoom(c)
            /\ session' = [session EXCEPT ![c] = Flash(@, "Admin access required")]
            /\ Return(t, Redirect("/login"))
       ELSE /\ \E sess \in Rendered(session[c]) : session' = [session EXCEPT ![c] = sess]
            /\ Return(t, RenderTemplate("/admin"))
    /\ UNCHANGED <<redis_client, PRODUCTS, store, writes>>
    /\ UNCHANGED <<start_time, clock, registry, users, email_unique, logged_in>>

\* the response has been sent; the thread is free for the next request
ShopFinish(t) ==
    /\ pc[t] = "done"
    /\ pc' = [pc EXCEPT ![t] = "idle"]
    /\ request' = [request EXCEPT ![t] = NoRequest]
    /\ response' = [response EXCEPT ![t] = NoResponse]
    /\ hist' = [hist EXCEPT ![t] = NoHist]
    /\ UNCHANGED <<redis_client, PRODUCTS, store, local, writes>>
    /\ UNCHANGED <<start_time, clock, registry, shop>>

ShopStep(t, c) ==
    \/ \E form \in SignupForms : Signup_query(t, c, form)
    \/ Signup_commit(t)
    \/ \E data \in SignupForms : ApiSignup_query(t, c, data)
    \/ ApiSignup_commit(t)
    \/ \E form \in LoginForms : Login(t, c, form)
    \/ \E data \in LoginForms : ApiLogin(t, c, data)
    \/ Logout(t, c)
    \/ \E page \in ProtectedPages : ProtectedPage(t, c, page)
    \/ Admin(t, c)
    \/ ShopFinish(t)

ShopNext == \E t \in Threads, c \in Clients : ShopStep(t, c)

ShopSpec == ShopInit /\ [][ShopNext]_vars

(***************************************************************************)
(* Properties.                                                             *)
(***************************************************************************)
Done(t) == pc[t] = "done"
IsGetProducts(t) == request[t] = GetProductsRequest
IsGetProduct(t) == "product_id" \in DOMAIN request[t]
IsCreateProduct(t) == request[t].method = "POST"
Contains(list, p) == \E j \in 1..Len(list) : list[j] = p
\* a GET /api/products that has answered 200
ListReturned(t) == Done(t) /\ IsGetProducts(t) /\ response[t].status = 200

\* C1: a GET request whose cache get raised still answers with its normal
\* 200 or 404; the backend error never becomes an error response.
C1_GetFailsSoft ==
    \A t \in Threads :
        (Done(t) /\ request[t].method = "GET" /\ hist[t].fault = "get")
            => response[t].status \in {200, 404}

\* C2: a read that missed and whose cache set raised still returns 200 with
\* the content it loaded from the source.
C2_SetFailsSoft ==
    \A t \in Threads :
        (Done(t) /\ request[t].method = "GET" /\ hist[t].fault = "set")
            => /\ response[t].status = 200
               /\ IsGetProducts(t) => response[t].body = PRODUCTS
               /\ IsGetProduct(t) =>
                    response[t].body = FindProduct(PRODUCTS, request[t].product_id).product

\* C3: a POST that appended its product and whose cache delete then failed
\* is still answered 201 with the created record.
C3_WriteSurvivesFailedInvalidation ==
    \A t \in Threads :
        (Done(t) /\ IsCreateProduct(t) /\ hist[t].fault = "delete")
            => response[t] = Jsonify(PRODUCTS[hist[t].index], 201)

\* the responses the request of thread t can get when redis_client is None:
\* the handlers then read PRODUCTS only, at some moment of the request
NoCacheResponses(t) ==
    LET r == request[t]
        before == SubSeq(PRODUCTS, 1, hist[t].startLen)
    IN  CASE IsGetProducts(t) ->
                {Jsonify(SubSeq(PRODUCTS, 1, n), 200) :
                    n \in hist[t].startLen..Len(PRODUCTS)}
          [] IsGetProduct(t) ->
                {Jsonify(FindProduct(SubSeq(PRODUCTS, 1, n), r.product_id).product, 200) :
                    n \in {m \in hist[t].startLen..Len(PRODUCTS) :
                            FindProduct(SubSeq(PRODUCTS, 1, m), r.product_id).found}}
                \cup (IF FindProduct(before, r.product_id).found THEN {}
                      ELSE {Jsonify([error |-> "Product not found"], 404)})
          [] OTHER ->
                IF Truthy(r.json)
                THEN {Jsonify(NewProduct(n, r.json), 201) :
                        n \in (hist[t].startLen + 1)..Len(PRODUCTS)}
                ELSE {Jsonify([error |-> "Invalid request"], 400)}

\* C4: every response produced with the cache enabled is a response the same
\* history produces with the cache removed.
C4_CacheTransparent ==
    \A t \in Threads :
        (Done(t) /\ request[t] # HealthRequest) => response[t] \in NoCacheResponses(t)

ServedFromCache(t) ==
    /\ ~hist[t].searched
    /\ Done(t)
    /\ response[t].status = 200
    /\ response[t].body.id = request[t].product_id

\* C6: with the cache available, a successful read of a product leaves its
\* key in the cache, and every read that looks the key up while the cache
\* holds it (before it expires or is deleted) is served from the cache and
\* does not search PRODUCTS.
C6_CacheHitAvoidance ==
    /\ [][\A t \in Threads :
            (redis_client # None /\ pc[t] # "done" /\ pc'[t] = "done"
                /\ "product_id" \in DOMAIN request'[t]
                /\ response'[t].status = 200)
                => ProductKey(request'[t].product_id) \in DOMAIN store']_vars
    /\ [](\A t \in Threads :
            (pc[t] # "idle" /\ IsGetProduct(t) /\ hist[t].keyHeld
                /\ hist[t].fault # "get")
                => ServedFromCache(t))

\* C6 witness: a product read has been served from the cache.
C6_Witness ==
    \E t \in Threads :
        /\ Done(t) /\ IsGetProduct(t)
        /\ hist[t].keyHeld /\ hist[t].fault = None
        /\ response[t].status = 200

\* C7: a POST whose body lacks a required field is answered 400 and appends
\* nothing.
C7_ValidationRejectsMissingFields ==
    \A t \in Threads :
        (pc[t] # "idle" /\ IsCreateProduct(t)
            /\ ~(RequiredFields \subseteq DOMAIN request[t].json))
            => /\ pc[t] # "delete"
               /\ hist[t].index = 0
               /\ Done(t) => response[t].status = 400

\* C8: the step that answers a POST with 400 leaves PRODUCTS and every cache
\* key as they were.
C8_RejectedWriteHasNoEffect ==
    [][\A t \in Threads :
          (pc[t] = "idle" /\ pc'[t] = "done" /\ response'[t].status = 400)
              => (PRODUCTS' = PRODUCTS /\ store' = store)]_vars

\* C8 witness: a POST has been answered 400 while the cache held the
\* aggregate key.
C8_Witness ==
    \E t \in Threads :
        /\ Done(t) /\ IsCreateProduct(t) /\ response[t].status = 400
        /\ AllKey \in DOMAIN store

WithinTTL == \A k \in DOMAIN store : store[k].ttl > 0 /\ store[k].ttl <= DefaultExpires

\* a list read returns a pre- or post-write list, and one shorter than
\* PRODUCTS was when the read started only from a live cache entry
PreOrPostWrite(t) ==
    /\ Len(response[t].body) >= Len(InitialProducts)
    /\ response[t].body = SubSeq(PRODUCTS, 1, Len(response[t].body))
    /\ Len(response[t].body) < hist[t].startLen
            => (hist[t].keyHeld /\ hist[t].fault = None)

Endpoints ==
    {<<l[2], l[3]>> : l \in DOMAIN REQUEST_COUNT}
        \cup {<<l[2], l[3]>> : l \in DOMAIN REQUEST_LATENCY}
        \cup DOMAIN served
\* the sum of the request counters of an endpoint, over the statuses
CountOf(e) ==
    SumOver(REQUEST_COUNT, {l \in DOMAIN REQUEST_COUNT : <<l[2], l[3]>> = e})
\* the observation count of the latency histogram of an endpoint
ObservationsOf(e) ==
    LET l == <<AppName, e[1], e[2]>>
    IN  IF l \in DOMAIN REQUEST_LATENCY THEN REQUEST_LATENCY[l].count ELSE 0
\* the requests to an endpoint that have been answered
ServedOf(e) == IF e \in DOMAIN served THEN served[e] ELSE 0
\* the requests to an endpoint that are between observe() and inc()
Counting(e) ==
    Cardinality({t \in Threads :
                    pc[t] = "inc" /\ <<request[t].method, request[t].path>> = e})

\* C11: for every method and path, the request counters sum to the number of
\* requests answered, and the latency histogram holds one observation for
\* each of them and one for each request that after_request is still
\* counting; no update is lost when request threads interleave.
C11_MetricsFidelity ==
    \A e \in Endpoints :
        /\ CountOf(e) = ServedOf(e)
        /\ ObservationsOf(e) = ServedOf(e) + Counting(e)

\* C11 witness: MaxRequests requests to one endpoint have been answered and
\* counted.
C11_Witness ==
    \E e \in Endpoints : ServedOf(e) = MaxRequests /\ CountOf(e) = MaxRequests

\* the sample of a counter, 0 when it has none
Sample(counter, l) == IF l \in DOMAIN counter THEN counter[l] ELSE 0

\* C12: a request whose view raised is answered 500, and it leaves
\* after_request only with one latency observation added for its method and
\* path and one count added to the sample labelled with the status 500.
C12_FaultedRequestIsRecorded ==
    [][\A t \in Threads :
          (pc[t] \in {"done", "inc"} /\ hist[t].fault # None) =>
              /\ response[t].status = 500
              /\ pc'[t] # pc[t] =>
                    \/ /\ pc[t] = "done" /\ pc'[t] = "inc"
                       /\ ObservationsOf(<<request[t].method, request[t].path>>)'
                            = ObservationsOf(<<request[t].method, request[t].path>>) + 1
                    \/ /\ pc[t] = "inc" /\ pc'[t] = "idle"
                       /\ LET l == <<AppName, request[t].method, request[t].path, 500>>
                          IN  Sample(REQUEST_COUNT', l) = Sample(REQUEST_COUNT, l) + 1]_vars

\* C12 witness: a request whose Redis command raised has been counted under
\* the status 500.
C12_Witness ==
    /\ \E l \in DOMAIN REQUEST_COUNT : l[4] = 500 /\ REQUEST_COUNT[l] = 1
    /\ \E l \in DOMAIN REQUEST_LATENCY : REQUEST_LATENCY[l].count = 1

\* C13: every sample of the counter and of the histogram is labelled with a
\* declared method and a declared route.
C13_BoundedLabelCardinality ==
    /\ \A l \in DOMAIN REQUEST_COUNT : l[2] \in DeclaredMethods /\ l[3] \in DeclaredRoutes
    /\ \A l \in DOMAIN REQUEST_LATENCY : l[2] \in DeclaredMethods /\ l[3] \in DeclaredRoutes

\* C14: the latency that after_request observed is not negative.
C14_LatencyNotNegative ==
    \A t \in Threads : pc[t] = "inc" => local[t].request_latency >= 0

\* C15: a step in which a Redis command raises leaves "disconnected" as the
\* value GET /health reports, and /health answers 200.
C15_HealthReflectsLastInteraction ==
    [][\A t \in Threads :
          /\ (request'[t] = HealthRequest /\ pc'[t] = "done") => response'[t].status = 200
          /\ (pc[t] # "done" /\ pc'[t] = "done" /\ hist'[t].fault # None)
                => HealthRedis(redis_client') = "disconnected"]_vars

(***************************************************************************)
(* Product reads.                                                          *)
(***************************************************************************)
\* the first record of PRODUCTS with the id the request of t asks for, as
\* PRODUCTS was when the request started and as it is now
FoundAtStart(t) ==
    FindProduct(SubSeq(PRODUCTS, 1, hist[t].startLen), request[t].product_id)
FoundNow(t) == FindProduct(PRODUCTS, request[t].product_id)

\* C16: GET /api/products/<id> is answered 200 with the record of PRODUCTS
\* whose id is <id> when there is one, and 404 when there is none.
C16_ItemReadResult ==
    \A t \in Threads :
        (Done(t) /\ IsGetProduct(t)) =>
            /\ response[t].status \in {200, 404}
            /\ FoundAtStart(t).found => response[t] = Jsonify(FoundAtStart(t).product, 200)
            /\ ~FoundNow(t).found
                    => response[t] = Jsonify([error |-> "Product not found"], 404)
            /\ response[t].status = 200 => response[t].body = FoundNow(t).product

\* C17: a read of an id that PRODUCTS does not hold is answered 404 and
\* leaves no key product_<id> in the cache; a read that starts once a POST
\* has appended the id is answered 200 with the new record.
C17_NoNegativeCaching ==
    \A t \in Threads :
        (Done(t) /\ IsGetProduct(t)) =>
            /\ ~FoundNow(t).found =>
                    /\ response[t].status = 404
                    /\ ProductKey(request[t].product_id) \notin DOMAIN store
            /\ (FoundAtStart(t).found /\ hist[t].startLen > Len(InitialProducts))
                    => response[t] = Jsonify(PRODUCTS[hist[t].startLen], 200)
                        \/ response[t] = Jsonify(FoundNow(t).product, 200)

(***************************************************************************)
(* The shop: login, admin, signup.                                         *)
(***************************************************************************)
\* thread t has answered a GET of one of the pages behind the login
PageAnswered(t) == Done(t) /\ request[t].path \in ProtectedPages

\* C18: GET /cart, /wishlist and /checkout answer 200 when the client has
\* logged in and not logged out since, and redirect to login otherwise; the
\* session holds a user_id exactly then.
C18_LoginGate ==
    /\ \A c \in Clients : ("user_id" \in DOMAIN session[c]) <=> (logged_in[c] # NoUser)
    /\ \A t \in Threads :
          PageAnswered(t) =>
              IF hist[t].login # NoUser
              THEN response[t] = RenderTemplate(request[t].path)
              ELSE response[t] = Redirect("/login")

\* C18 witness: a page behind the login has been answered 200, and another
\* request of the client has been redirected to login after the logout.
C18_Witness ==
    \E t, u \in Threads :
        /\ PageAnswered(t) /\ response[t].status = 200
        /\ PageAnswered(u) /\ response[u].status = 302

IsSignup(t) == request[t].path \in {"/signup", "/api/auth/signup"}
\* the answers of signup to an email that is taken, and to one that is free
Rejection(t) ==
    IF request[t].path = "/signup" THEN Redirect("/signup")
    ELSE Jsonify([msg |-> "Email already exists"], 400)
Success(t) ==
    IF request[t].path = "/signup" THEN Redirect("/login")
    ELSE Jsonify([msg |-> "Signup successful"], 201)
\* the email of the signup of t belonged to a row when the request arrived
StoredAtQuery(t) ==
    \E i \in 1..hist[t].seen : users[i].email = request[t].form.email
\* two rows share an email
SharedEmail == \E i, j \in 1..Len(users) : i # j /\ users[i].email = users[j].email

IsLogin(t) == request[t].path \in {"/login", "/api/auth/login"}
\* the email of the form is unknown, or the first row that holds it was
\* stored with another password
BadCredentials(rows, form) ==
    \A i \in 1..Len(rows) :
        (rows[i].email = form.email /\ \A l \in 1..(i - 1) : rows[l].email # form.email)
            => rows[i].password_hash # GeneratePasswordHash(form.password)
\* thread t answers, in this step, a login whose credentials are invalid
RejectsLogin(t) ==
    /\ pc[t] = "idle" /\ pc'[t] = "done"
    /\ IsLogin(t)'
    /\ BadCredentials(users, request'[t].form)
\* what the session holds of a login
LoginKeys(sess) ==
    [k \in DOMAIN sess \cap {"user_id", "username", "is_admin"} |-> sess[k]]

\* C21: a login with an unknown email or a wrong password is answered 401
\* without an access token by POST /api/auth/login, and by POST /login with
\* the redirect to login and the session as it was.
C21_InvalidLoginGrantsNothing ==
    [][\A t \in Threads :
          RejectsLogin(t) =>
              IF request'[t].path = "/api/auth/login"
              THEN /\ response'[t].status = 401
                   /\ "access_token" \notin DOMAIN response'[t].body
              ELSE /\ response'[t] = Redirect("/login")
                   /\ session' = session]_vars

\* C21 as amended: the same, except that POST /login queues the message
\* 'Invalid credentials' in the session; user_id, username and is_admin of
\* the session stay as they were, so that the pages behind the login answer
\* as before.
C21_InvalidLoginKeepsLoginKeys ==
    [][\A t \in Threads :
          RejectsLogin(t) =>
              /\ logged_in' = logged_in /\ users' = users
              /\ \A c \in Clients : LoginKeys(session'[c]) = LoginKeys(session[c])
              /\ IF request'[t].path = "/api/auth/login"
                 THEN /\ response'[t] = Jsonify([msg |-> "Invalid credentials"], 401)
                      /\ session' = session
                 ELSE /\ response'[t] = Redirect("/login")
                      /\ session' = [session EXCEPT ![request'[t].client] =
                              Flash(@, "Invalid credentials")]]_vars

\* C21 witness: POST /login has turned a wrong password away and queued its
\* message, and POST /api/auth/login has answered 401.
C21_Witness ==
    \E t, u \in Threads :
        /\ Done(t) /\ request[t].path = "/login" /\ response[t] = Redirect("/login")
        /\ request[t].form.password = "wrongpass"
        /\ \E c \in Clients :
              \E i \in 1..Len(Flashes(session[c])) :
                  Flashes(session[c])[i] = <<"message", "Invalid credentials">>
        /\ Done(u) /\ request[u].path = "/api/auth/login" /\ response[u].status = 401

(***************************************************************************)
(* Concurrent reads and creates of the catalog.                            *)
(***************************************************************************)
\* the read of t looked its key up and Redis answered that it holds none
Missed(t) == ~hist[t].keyHeld /\ hist[t].fault # "get"
\* the key the read of t looks up, and what the source holds for it now
KeyOf(t) == IF IsGetProducts(t) THEN AllKey ELSE ProductKey(request[t].product_id)
SourceAnswer(t) ==
    IF IsGetProducts(t) THEN Jsonify(PRODUCTS, 200)
    ELSE IF FoundNow(t).found THEN Jsonify(FoundNow(t).product, 200)
         ELSE Jsonify([error |-> "Product not found"], 404)
SourceDumps(t) ==
    IF IsGetProducts(t) THEN DumpsList(PRODUCTS) ELSE DumpsProduct(FoundNow(t).product)
\* t and u have answered reads of one key that both missed, and PRODUCTS is
\* as it was when each of them started
Stampede(t, u) ==
    /\ t # u /\ Done(t) /\ Done(u)
    /\ IsGetProducts(t) \/ IsGetProduct(t)
    /\ request[u] = request[t]
    /\ Missed(t) /\ Missed(u)
    /\ hist[t].startLen = Len(PRODUCTS) /\ hist[u].startLen = Len(PRODUCTS)

\* C22: reads of one key that miss together, with no create between their
\* start and their answers, all return what the source holds for the key,
\* and the entry they leave in the cache is that content.
C22_StampedeSafe ==
    \A t, u \in Threads :
        Stampede(t, u) =>
            /\ response[t].status = SourceAnswer(t).status
            /\ response[t] = SourceAnswer(t)
            /\ response[u].status = response[t].status
            /\ KeyOf(t) \in DOMAIN store =>
                    (response[t].status = 200 /\ store[KeyOf(t)].val = SourceDumps(t))

\* C23: no two records of PRODUCTS have the same id.
C23_UniqueIds ==
    \A i, j \in 1..Len(PRODUCTS) : i # j => PRODUCTS[i].id # PRODUCTS[j].id

\* C24: a request that has appended to PRODUCTS is a POST /api/products
\* answered 201; a request answered with an error status has appended
\* nothing.
C24_SourceChangesOnlyOnSuccess ==
    \A t \in Threads :
        Done(t) =>
            /\ response[t].status >= 400 => hist[t].index = 0
            /\ hist[t].index # 0 => (IsCreateProduct(t) /\ response[t].status = 201)

\* list s is the first Len(s) members of list l
IsPrefix(s, l) == Len(s) <= Len(l) /\ s = SubSeq(l, 1, Len(s))

\* C25: the list cached under "all_products" is a prefix of PRODUCTS.
C25_AggregateEntryIsSnapshot ==
    AllKey \in DOMAIN store => IsPrefix(LoadsList(store[AllKey].val), PRODUCTS)

\* C25 witness: the cache holds a list that lacks the product appended
\* since.
C25_Witness ==
    /\ AllKey \in DOMAIN store
    /\ Len(LoadsList(store[AllKey].val)) < Len(PRODUCTS)

\* C26: the record cached under product_<id> is the first record of
\* PRODUCTS with that id.
C26_ItemEntryNeverStale ==
    \A id \in ReadIds :
        ProductKey(id) \in DOMAIN store =>
            \E i \in 1..Len(PRODUCTS) :
                /\ PRODUCTS[i].id = id
                /\ \A l \in 1..(i - 1) : PRODUCTS[l].id # id
                /\ LoadsProduct(store[ProductKey(id)].val) = PRODUCTS[i]

\* C26 witness: a product is cached whose id two records of PRODUCTS have.
C26_Witness ==
    \E id \in ReadIds :
        /\ ProductKey(id) \in DOMAIN store
        /\ \E i, j \in 1..Len(PRODUCTS) :
              i # j /\ PRODUCTS[i].id = id /\ PRODUCTS[j].id = id

\* the request that thread t serves in this step
StepRequest(t) == IF pc[t] = "idle" THEN request'[t] ELSE request[t]

\* C27: every step leaves the records of PRODUCTS in place and adds at most
\* one at the end; a step of a GET request (list, product, health, metrics)
\* leaves PRODUCTS as it is, and only the append of a POST /api/products
\* adds a record.
C27_SourceAppendOnly ==
    [][/\ Len(PRODUCTS') \in {Len(PRODUCTS), Len(PRODUCTS) + 1}
       /\ SubSeq(PRODUCTS', 1, Len(PRODUCTS)) = PRODUCTS
       /\ (\A t \in Threads : pc'[t] = pc[t]) => PRODUCTS' = PRODUCTS
       /\ \A t \in Threads :
              pc'[t] # pc[t] =>
                  IF StepRequest(t).method = "GET"
                  THEN PRODUCTS' = PRODUCTS
                  ELSE PRODUCTS' # PRODUCTS => pc[t] = "append"]_vars

\* C27 witness: a POST has appended a record behind the initial ones and a
\* GET request has been answered.
C27_Witness ==
    /\ Len(PRODUCTS) > Len(InitialProducts)
    /\ SubSeq(PRODUCTS, 1, Len(InitialProducts)) = InitialProducts
    /\ \E e \in DOMAIN served : e[1] = "GET"

\* C28: no step of a POST /api/products sets a cache key or touches a key
\* other than "all_products", and the step that answers 201 with the cache
\* enabled leaves no "all_products" key.
C28_InvalidationScope ==
    [][\A t \in Threads :
          (pc'[t] # pc[t] /\ StepRequest(t).method = "POST") =>
              /\ DOMAIN store' \subseteq DOMAIN store
              /\ \A k \in DOMAIN store :
                    IF k = AllKey
                    THEN k \in DOMAIN store' => store'[k] = store[k]
                    ELSE k \in DOMAIN store' /\ store'[k] = store[k]
              /\ (pc[t] = "delete" /\ response'[t].status = 201)
                    => AllKey \notin DOMAIN store']_vars

\* C28 witness: a POST has been answered 201 after its delete, and the
\* cache still holds a product key.
C28_Witness ==
    \E t \in Threads :
        /\ Done(t) /\ IsCreateProduct(t) /\ response[t].status = 201
        /\ redis_client # None
        /\ AllKey \notin DOMAIN store
        /\ \E id \in ReadIds : ProductKey(id) \in DOMAIN store

\* C29: while no request is between observe() and inc(), the latency
\* histogram of every method and path counts as many observations as the
\* request counters of that method and path sum to.
C29_CounterAndHistogramAgree ==
    (\A t \in Threads : pc[t] # "inc") =>
        \A e \in Endpoints : ObservationsOf(e) = CountOf(e)

\* C29 witness: no request is between observe() and inc(), and one method
\* and path has two observations counted under two statuses.
C29_Witness ==
    /\ \A t \in Threads : pc[t] # "inc"
    /\ \E e \in Endpoints :
          /\ ObservationsOf(e) = 2
          /\ Cardinality({l \in DOMAIN REQUEST_COUNT : <<l[2], l[3]>> = e}) = 2

\* the handlers of thread t are at a Redis command
AtRedisCommand(t) == pc[t] \in {"dumps", "setex", "setex_product", "delete"}

\* C30: when the startup ping failed, redis_client stays None, no request
\* reaches a Redis command or meets a Redis fault, the store stays empty,
\* reads are answered from PRODUCTS, a POST with a body is answered 201 and
\* GET /health reports "disconnected".
C30_DisabledCacheStaysDisabled ==
    /\ [][redis_client = None => redis_client' = None]_vars
    /\ [](redis_client = None =>
            /\ DOMAIN store = {}
            /\ \A t \in Threads :
                  /\ ~AtRedisCommand(t)
                  /\ Done(t) =>
                        /\ hist[t].fault = None /\ ~hist[t].keyHeld
                        /\ IsGetProducts(t) =>
                              (response[t].status = 200
                                /\ response[t] \in NoCacheResponses(t))
                        /\ IsGetProduct(t) =>
                              (hist[t].searched /\ response[t].status \in {200, 404}
                                /\ response[t] \in NoCacheResponses(t))
                        /\ (IsCreateProduct(t) /\ Truthy(request[t].json))
                              => response[t].status = 201
                        /\ request[t] = HealthRequest =>
                              (response[t].status = 200
                                /\ response[t].body.redis = "disconnected"))

\* C30 witness: without a client, GET /health has reported "disconnected"
\* and a POST has been answered 201.
C30_Witness ==
    /\ redis_client = None
    /\ \E t, u \in Threads :
          /\ Done(t) /\ request[t] = HealthRequest
          /\ response[t].body.redis = "disconnected"
          /\ Done(u) /\ IsCreateProduct(u) /\ response[u].status = 201

====
